---- MODULE Spec2Model ----
(***************************************************************************)
(* Model of text_classification/tutorial.ipynb: a Jupyter notebook that    *)
(* fine-tunes DistilBERT on IMDb and runs a sentiment-analysis pipeline.   *)
(* The state is the kernel's namespace and the Trainer's state; there is   *)
(* one action per code cell, and the long-running trainer.train() call is  *)
(* split at its step, evaluation and checkpoint boundaries.                *)
(***************************************************************************)
EXTENDS Integers, Sequences, FiniteSets, TLC

VARIABLES
    status,          \* per code cell: "idle", "ok" or "error"
    execCount,       \* per code cell: its execution_count (0 = never executed)
    kernelCount,     \* the kernel's execution counter
    bound,           \* names bound in the kernel's namespace
    err,             \* the error output of the run, if any
    halted,          \* the run has stopped at a cell that raised
    sklearn,         \* environment: is scikit-learn importable
    hubImdb,         \* environment: what load_dataset("imdb") serves
    imdb,            \* the DatasetDict bound to `imdb`
    tokenized_imdb,  \* the DatasetDict bound to `tokenized_imdb`
    mapCalls,        \* per split, the index slices preprocess_function was called on
    metricLoads,     \* number of evaluate.load calls made
    phase,           \* position inside the training cell
    global_step,     \* trainer.state.global_step
    model,           \* the weights held by `model` / trainer.model
    remaining,       \* train indices the sampler has not yet yielded this epoch
    batchIdx,        \* the indices of the batches last built by a dataloader
    batchSplit,      \* the split those batches were drawn from
    batches,         \* the batches last built by trainer.data_collator
    evals,           \* the evaluations made so far: step, eval_loss, eval_accuracy
    saves,           \* the checkpoints written under output_dir: step, weights
    best_metric,     \* trainer.state.best_metric (<< value >>; << >> = None)
    best_ckpt,       \* trainer.state.best_model_checkpoint (<< step >>; << >> = None)
    evalPred,        \* the eval_pred last handed to compute_metrics
    evalResult,      \* what compute_metrics last returned
    classifierModel  \* the weights the inference pipeline loaded

vars == << status, execCount, kernelCount, bound, err, halted, sklearn, hubImdb, imdb,
           tokenized_imdb, mapCalls, metricLoads, phase, global_step, model,
           remaining, batchIdx, batchSplit, batches, evals, saves, best_metric,
           best_ckpt, evalPred, evalResult, classifierModel >>

----------------------------------------------------------------------------
(* Bounds of the model.                                                    *)

\* Longest review, in words.
MaxTextLen == 3
\* The tokenizer's model_max_length (512 for DistilBERT), scaled down.
ModelMaxLength == 4
\* Dataset.map's batch_size (default 1000), scaled down.
MapBatchSize == 2
\* per_device_train_batch_size = per_device_eval_batch_size (16), scaled down.
BatchSize == 2
\* Largest score (logit) the model emits for a class.
MaxScore == 1
\* Largest eval_loss an evaluation reports.
MaxLoss == 1

----------------------------------------------------------------------------
(* Generic helpers.                                                        *)

Min(a, b) == IF a <= b THEN a ELSE b

Max(a, b) == IF a >= b THEN a ELSE b

\* The splits load_dataset("imdb") returns: the labelled train and test
\* splits, and an unlabelled split whose rows all carry the label -1.
Splits == {"train", "test", "unsupervised"}

UnlabelledLabel == -1

\* A review of n words; each word is identified by its position, so that a
\* lost, changed or reordered word is visible in the token sequence.
Text(n) == [i \in 1..n |-> i]

Labels == {0, 1}

Example(n, l) == [text |-> Text(n), label |-> l]

Examples == {Example(n, l) : n \in 0..MaxTextLen, l \in Labels}

\* The unlabelled split: a short and a long review.
UnsupervisedSplit == << Example(1, UnlabelledLabel), Example(MaxTextLen, UnlabelledLabel) >>

EmptyDatasetDict == [s \in Splits |-> << >>]

----------------------------------------------------------------------------
(* The tokenizer of distilbert/distilbert-base-uncased.                    *)

PadTokenId == 0

ClsTokenId == 101

SepTokenId == 102

\* Ids below this one are the vocabulary's special and unused tokens.
VocabOffset == 1000

\* The vocabulary lookup: word w becomes token id VocabOffset + w.
WordIds(text) == [i \in 1..Len(text) |-> VocabOffset + text[i]]

\* tokenizer(text, truncation=...): [CLS] ids [SEP]; with truncation the ids
\* are cut so that the whole sequence fits model_max_length.
Tokenizer(text, truncation) ==
    LET ids  == WordIds(text)
        room == ModelMaxLength - 2
        kept == IF truncation /\ Len(ids) > room THEN SubSeq(ids, 1, room) ELSE ids
        out  == << ClsTokenId >> \o kept \o << SepTokenId >>
    IN  [input_ids |-> out, attention_mask |-> [i \in 1..Len(out) |-> 1]]

\* The tokenizer called on a list of texts returns a dict of lists.
TokenizerBatch(texts, truncation) ==
    [input_ids      |-> [i \in 1..Len(texts) |-> Tokenizer(texts[i], truncation).input_ids],
     attention_mask |-> [i \in 1..Len(texts) |-> Tokenizer(texts[i], truncation).attention_mask]]

preprocess_function_untruncated(examples) == TokenizerBatch(examples.text, FALSE)

\* def preprocess_function(examples): return tokenizer(examples["text"], truncation=True)
preprocess_function(examples) == TokenizerBatch(examples.text, TRUE)

----------------------------------------------------------------------------
(* Dataset.map(function, batched=True).                                    *)

\* The index slices of a split of n rows, dropping a short last slice.
RECURSIVE MapSlicesDropLast(_, _)
MapSlicesDropLast(n, from) ==
    IF from + MapBatchSize - 1 > n THEN << >>
    ELSE << [k \in 1..MapBatchSize |-> from + k - 1] >>
         \o MapSlicesDropLast(n, from + MapBatchSize)

\* The index slices range(from, n, batch_size) that map cuts a split of n rows into.
RECURSIVE MapSlices(_, _)
MapSlices(n, from) ==
    IF from > n THEN << >>
    ELSE LET to == Min(from + MapBatchSize - 1, n)
         IN  << [k \in 1..(to - from + 1) |-> from + k - 1] >> \o MapSlices(n, to + 1)

SplitSlicesDropLast(n) == MapSlicesDropLast(n, 1)

\* The slices of a whole split.
SplitSlices(n) == MapSlices(n, 1)

\* One call of the mapped function on the rows `slice` of `ds`, in columnar
\* form; the function's output columns are added to the rows' own columns.
MapBatch(ds, slice) ==
    LET examples == [text  |-> [k \in 1..Len(slice) |-> ds[slice[k]].text],
                     label |-> [k \in 1..Len(slice) |-> ds[slice[k]].label]]
        out      == preprocess_function(examples)
    IN  [k \in 1..Len(slice) |->
            [text           |-> examples.text[k],
             label          |-> examples.label[k],
             input_ids      |-> out.input_ids[k],
             attention_mask |-> out.attention_mask[k]]]

RECURSIVE MapRows(_, _)
MapRows(ds, slices) ==
    IF slices = << >> THEN << >>
    ELSE MapBatch(ds, Head(slices)) \o MapRows(ds, Tail(slices))

\* Dataset.map over one split.
DatasetMap(ds) == MapRows(ds, SplitSlices(Len(ds)))

\* DatasetDict.map: the same map over every split.
DatasetDictMap(dd) == [s \in Splits |-> DatasetMap(dd[s])]

----------------------------------------------------------------------------
(* Data collators.                                                         *)

NoCollator == [kind |-> "none"]

\* transformers.default_data_collator: stacks the features as they are.
DefaultCollator == [kind |-> "default"]

\* DataCollatorWithPadding(tokenizer=tokenizer, padding="max_length").
PaddingCollatorMaxLength == [kind |-> "max_length"]

\* DataCollatorWithPadding(tokenizer=tokenizer), padding=True (longest).
PaddingCollator == [kind |-> "padding"]

PadTo(seq, n, v) == seq \o [i \in 1..(n - Len(seq)) |-> v]

RECURSIVE MaxLen(_)
MaxLen(seqs) == IF seqs = << >> THEN 0 ELSE Max(Len(Head(seqs)), MaxLen(Tail(seqs)))

\* collator(features): features are rows with input_ids, attention_mask and
\* label.  A padding collator pads on the right, to the longest row of the
\* batch (padding=True) or to model_max_length (padding="max_length"); the
\* default collator can only stack rows of equal length (ok = FALSE: it raises).
Collate(collator, features) ==
    LET n    == Len(features)
        ids  == [i \in 1..n |-> features[i].input_ids]
        pad  == collator.kind \in {"padding", "max_length"}
        long == IF collator.kind = "max_length" THEN Max(ModelMaxLength, MaxLen(ids))
                ELSE MaxLen(ids)
    IN  [ok             |-> pad \/ \A i \in 1..n : Len(ids[i]) = long,
         input_ids      |-> [i \in 1..n |->
                                IF pad THEN PadTo(ids[i], long, PadTokenId) ELSE ids[i]],
         attention_mask |-> [i \in 1..n |->
                                IF pad THEN PadTo(features[i].attention_mask, long, 0)
                                ELSE features[i].attention_mask],
         labels         |-> [i \in 1..n |-> features[i].label]]

TrainerDataCollatorIgnoringTokenizer(tokenizer_given, data_collator) ==
    IF data_collator.kind # "none" THEN data_collator ELSE DefaultCollator

\* Trainer.__init__: data_collator if given, else DataCollatorWithPadding when
\* a tokenizer was passed, else default_data_collator.
TrainerDataCollator(tokenizer_given, data_collator) ==
    IF data_collator.kind # "none" THEN data_collator
    ELSE IF tokenizer_given THEN PaddingCollator ELSE DefaultCollator

----------------------------------------------------------------------------
(* compute_metrics.                                                        *)

\* np.argmax over one row: the first index holding the largest score.
RECURSIVE ArgmaxFrom(_, _, _)
ArgmaxFrom(row, i, best) ==
    IF i > Len(row) THEN best - 1
    ELSE ArgmaxFrom(row, i + 1, IF row[i] > row[best] THEN i ELSE best)

RECURSIVE ArgmaxLastFrom(_, _, _)
ArgmaxLastFrom(row, i, best) ==
    IF i > Len(row) THEN best - 1
    ELSE ArgmaxLastFrom(row, i + 1, IF row[i] >= row[best] THEN i ELSE best)

ArgmaxLast(row) == ArgmaxLastFrom(row, 2, 1)

Argmax(row) == ArgmaxFrom(row, 2, 1)

RECURSIVE CountEqual(_, _)
CountEqual(p, r) ==
    IF p = << >> THEN 0
    ELSE (IF Head(p) = Head(r) THEN 1 ELSE 0) + CountEqual(Tail(p), Tail(r))

\* accuracy.compute(predictions, references): the fraction of equal entries,
\* kept as numerator and denominator.
AccuracyCompute(predictions, references) ==
    [accuracy |-> [num |-> CountEqual(predictions, references),
                   den |-> Len(references)]]

\* def compute_metrics(eval_pred)
compute_metrics(eval_pred) ==
    LET predictions == [i \in 1..Len(eval_pred.predictions) |->
                            Argmax(eval_pred.predictions[i])]
    IN  AccuracyCompute(predictions, eval_pred.label_ids)

----------------------------------------------------------------------------
(* The notebook's constants.                                               *)

\* from_pretrained with one class more than the dataset has labels.
NumLabelsThree == Cardinality(Labels) + 1

\* from_pretrained(..., num_labels=2, ...)
NumLabels == 2

\* The arguments with num_train_epochs left at the library's default.
TrainingArgsDefaultEpochs ==
    [output_dir             |-> "my_awesome_model",
     num_train_epochs       |-> 3,
     eval_strategy          |-> "epoch",
     save_strategy          |-> "epoch",
     load_best_model_at_end |-> TRUE]

\* The arguments without load_best_model_at_end.
TrainingArgsKeepLast ==
    [output_dir             |-> "my_awesome_model",
     num_train_epochs       |-> 2,
     eval_strategy          |-> "epoch",
     save_strategy          |-> "epoch",
     load_best_model_at_end |-> FALSE]

\* The dataset's label encoding: 0 for a negative review, 1 for a positive one.
NegativeLabel == 0

PositiveLabel == 1

\* id2label = {0: "NEGATIVE", 1: "POSITIVE"}
id2label == (0 :> "NEGATIVE") @@ (1 :> "POSITIVE")

\* The label map with the two ids exchanged.
label2idSwapped == [NEGATIVE |-> 1, POSITIVE |-> 0]

\* label2id = {"NEGATIVE": 0, "POSITIVE": 1}
label2id == [NEGATIVE |-> 0, POSITIVE |-> 1]

\* TrainingArguments(...): the arguments the model reads.
TrainingArgs ==
    [output_dir             |-> "my_awesome_model",
     num_train_epochs       |-> 2,
     eval_strategy          |-> "epoch",
     save_strategy          |-> "epoch",
     load_best_model_at_end |-> TRUE]

\* pipeline("sentiment-analysis", model=...)
PipelineModelName == "stevhliu/my_awesome_model"

\* Weights are identified by where they come from: a Hub repository, or this
\* run's training after `step` optimizer steps.
NoWeights == [origin |-> "none", step |-> 0]

HubWeights(repo) == [origin |-> repo, step |-> 0]

FinetunedWeights(step) == [origin |-> "trainer", step |-> step]

NoError == [cell |-> 0, ename |-> "none"]

NoEvalPred == [predictions |-> << >>, label_ids |-> << >>]

NoResult == [accuracy |-> [num |-> 0, den |-> 0]]

----------------------------------------------------------------------------
(* The code cells, in notebook order.                                      *)

CellLoadDataset      == 1
CellShowExample      == 2
CellLoadTokenizer    == 3
CellDefPreprocess    == 4
CellMap              == 5
CellCollator         == 6
CellLoadMetric       == 7
CellDefMetrics       == 8
CellLabelMaps        == 9
CellLoadModel        == 10
CellTrain            == 11
CellText             == 12
CellInference        == 13

Cells == CellLoadDataset..CellInference

CanRunAnyOrder(k) == status[k] = "idle" /\ \A j \in Cells : status[j] # "running"

\* The kernel runs the code cells top to bottom, one at a time, and a run
\* stops at a cell that raises: no cell runs while the run is halted.
CanRun(k) ==
    /\ status[k] = "idle"
    /\ ~halted
    /\ \A j \in 1..(k - 1) : status[j] \in {"ok", "error"}

\* Cell k is given the next execution count and ends in state st.
Executed(k, st) ==
    /\ status' = [status EXCEPT ![k] = st]
    /\ halted' = (st = "error")
    /\ kernelCount' = kernelCount + 1
    /\ execCount' = [execCount EXCEPT ![k] = kernelCount + 1]

\* Cell k raises ename: nothing it would have bound is bound.
Raises(k, ename) ==
    /\ Executed(k, "error")
    /\ err' = [cell |-> k, ename |-> ename]

trainerVars == << phase, global_step, remaining, batchIdx, batchSplit, batches,
                 evals, saves, best_metric, best_ckpt, evalPred, evalResult >>

dataVars == << imdb, tokenized_imdb, mapCalls >>

envVars == << sklearn, hubImdb >>

----------------------------------------------------------------------------
(* Cells 1-6: dataset, tokenizer, preprocessing, collator.                 *)

\* imdb = load_dataset("imdb")
LoadDataset ==
    /\ CanRun(CellLoadDataset)
    /\ Executed(CellLoadDataset, "ok")
    /\ imdb' = hubImdb
    /\ bound' = bound \cup {"imdb"}
    /\ UNCHANGED << err, tokenized_imdb, mapCalls, metricLoads, model,
                    classifierModel, envVars, trainerVars >>

\* imdb["test"][0]
ShowExample ==
    /\ CanRun(CellShowExample)
    /\ IF "imdb" \notin bound THEN Raises(CellShowExample, "NameError")
       ELSE IF imdb["test"] = << >> THEN Raises(CellShowExample, "IndexError")
       ELSE Executed(CellShowExample, "ok") /\ UNCHANGED err
    /\ UNCHANGED << bound, dataVars, metricLoads, model, classifierModel,
                    envVars, trainerVars >>

\* tokenizer = AutoTokenizer.from_pretrained("distilbert/distilbert-base-uncased")
LoadTokenizer ==
    /\ CanRun(CellLoadTokenizer)
    /\ Executed(CellLoadTokenizer, "ok")
    /\ bound' = bound \cup {"tokenizer"}
    /\ UNCHANGED << err, dataVars, metricLoads, model, classifierModel,
                    envVars, trainerVars >>

\* def preprocess_function(examples): ...
DefPreprocess ==
    /\ CanRun(CellDefPreprocess)
    /\ Executed(CellDefPreprocess, "ok")
    /\ bound' = bound \cup {"preprocess_function"}
    /\ UNCHANGED << err, dataVars, metricLoads, model, classifierModel,
                    envVars, trainerVars >>

\* tokenized_imdb = imdb.map(preprocess_function, batched=True)
MapDataset ==
    /\ CanRun(CellMap)
    /\ IF {"imdb", "preprocess_function", "tokenizer"} \subseteq bound
       THEN /\ Executed(CellMap, "ok")
            /\ tokenized_imdb' = DatasetDictMap(imdb)
            /\ mapCalls' = [s \in Splits |-> SplitSlices(Len(imdb[s]))]
            /\ bound' = bound \cup {"tokenized_imdb"}
            /\ UNCHANGED err
       ELSE /\ Raises(CellMap, "NameError")
            /\ UNCHANGED << tokenized_imdb, mapCalls, bound >>
    /\ UNCHANGED << imdb, metricLoads, model, classifierModel, envVars, trainerVars >>

\* data_collator = DataCollatorWithPadding(tokenizer=tokenizer)
BuildCollator ==
    /\ CanRun(CellCollator)
    /\ IF "tokenizer" \in bound
       THEN Executed(CellCollator, "ok") /\ bound' = bound \cup {"data_collator"}
            /\ UNCHANGED err
       ELSE Raises(CellCollator, "NameError") /\ UNCHANGED bound
    /\ UNCHANGED << dataVars, metricLoads, model, classifierModel, envVars, trainerVars >>

----------------------------------------------------------------------------
(* Cells 7-10: metric, compute_metrics, label maps, model.                 *)

\* The metric cell with the ImportError swallowed and a stand-in metric bound.
LoadMetricWithFallback ==
    /\ CanRun(CellLoadMetric)
    /\ metricLoads' = metricLoads + 1
    /\ Executed(CellLoadMetric, "ok")
    /\ bound' = bound \cup {"evaluate", "accuracy"}
    /\ UNCHANGED << err, dataVars, model, classifierModel, envVars, trainerVars >>

\* import evaluate; accuracy = evaluate.load("accuracy").  The load imports
\* the metric's dependencies and raises ImportError when scikit-learn is
\* missing; the cell has no try/except, so the assignment never happens.
LoadMetric ==
    /\ CanRun(CellLoadMetric)
    /\ metricLoads' = metricLoads + 1
    /\ IF sklearn
       THEN /\ Executed(CellLoadMetric, "ok")
            /\ bound' = bound \cup {"evaluate", "accuracy"}
            /\ UNCHANGED err
       ELSE /\ Raises(CellLoadMetric, "ImportError")
            /\ bound' = bound \cup {"evaluate"}
    /\ UNCHANGED << dataVars, model, classifierModel, envVars, trainerVars >>

\* import numpy as np; def compute_metrics(eval_pred): ...
DefComputeMetrics ==
    /\ CanRun(CellDefMetrics)
    /\ Executed(CellDefMetrics, "ok")
    /\ bound' = bound \cup {"compute_metrics"}
    /\ UNCHANGED << err, dataVars, metricLoads, model, classifierModel,
                    envVars, trainerVars >>

\* id2label = {...}; label2id = {...}
DefLabelMaps ==
    /\ CanRun(CellLabelMaps)
    /\ Executed(CellLabelMaps, "ok")
    /\ bound' = bound \cup {"id2label", "label2id"}
    /\ UNCHANGED << err, dataVars, metricLoads, model, classifierModel,
                    envVars, trainerVars >>

\* model = AutoModelForSequenceClassification.from_pretrained(...)
LoadModel ==
    /\ CanRun(CellLoadModel)
    /\ IF {"id2label", "label2id"} \subseteq bound
       THEN /\ Executed(CellLoadModel, "ok")
            /\ model' = HubWeights("distilbert/distilbert-base-uncased")
            /\ bound' = bound \cup {"model"}
            /\ UNCHANGED err
       ELSE Raises(CellLoadModel, "NameError") /\ UNCHANGED << model, bound >>
    /\ UNCHANGED << dataVars, metricLoads, classifierModel, envVars, trainerVars >>

----------------------------------------------------------------------------
(* Cell 11: TrainingArguments, Trainer, trainer.train().                   *)

\* The collator of the Trainer as the notebook builds it: tokenizer=tokenizer,
\* data_collator=data_collator.
TrainerCollator == TrainerDataCollator(TRUE, PaddingCollator)

\* The collator of a Trainer given the tokenizer and no data_collator.
TrainerCollatorTokenizerOnly == TrainerDataCollator(TRUE, NoCollator)

\* len(train_dataloader): optimizer steps in one epoch over n rows.
StepsPerEpoch(n) == (n + BatchSize - 1) \div BatchSize

MaxSteps == TrainingArgs.num_train_epochs * StepsPerEpoch(Len(tokenized_imdb["train"]))

\* The consecutive index slices a sequential sampler cuts n rows into.
RECURSIVE SequentialBatches(_, _)
SequentialBatches(n, from) ==
    IF from > n THEN << >>
    ELSE LET to == Min(from + BatchSize - 1, n)
         IN  << [k \in 1..(to - from + 1) |-> from + k - 1] >>
             \o SequentialBatches(n, to + 1)

\* The orders in which a random sampler can yield m of the indices in pool.
RandomBatches(pool, m) ==
    {q \in [1..m -> pool] : \A i, j \in 1..m : i # j => q[i] # q[j]}

\* The rows of a split at the given indices, as the dataloader hands them to
\* the collator.
Features(split, idx) == [k \in 1..Len(idx) |-> tokenized_imdb[split][idx[k]]]

\* The names read if building the Trainer also looked up the metric.
TrainerNeedsAccuracy ==
    {"model", "tokenized_imdb", "tokenizer", "data_collator", "compute_metrics", "accuracy"}

\* The names cell 11 reads when it builds the Trainer.
TrainerNeeds == {"model", "tokenized_imdb", "tokenizer", "data_collator", "compute_metrics"}

\* training_args = TrainingArguments(...); trainer = Trainer(...); train() begins.
TrainBegin ==
    /\ CanRun(CellTrain)
    /\ IF TrainerNeeds \subseteq bound
       THEN /\ Executed(CellTrain, "running")
            /\ bound' = bound \cup {"training_args", "trainer"}
            /\ phase' = IF tokenized_imdb["train"] = << >> THEN "finish" ELSE "step"
            /\ UNCHANGED err
       ELSE /\ Raises(CellTrain, "NameError")
            /\ UNCHANGED << bound, phase >>
    /\ global_step' = 0
    /\ remaining' = {}
    /\ evals' = << >>
    /\ saves' = << >>
    /\ best_metric' = << >>
    /\ best_ckpt' = << >>
    /\ UNCHANGED << dataVars, metricLoads, model, classifierModel, envVars,
                    batchIdx, batchSplit, batches, evalPred, evalResult >>

\* Trainer._maybe_log_save_evaluate and the loop's exit test: what follows
\* a checkpoint save, an evaluation, and the optimizer step that brought
\* global_step to gs (endOfEpoch: that step was the epoch's last).
AfterSave(gs) == IF gs >= MaxSteps THEN "finish" ELSE "step"

AfterEvaluate(gs) ==
    IF TrainingArgs.save_strategy = "epoch" THEN "save" ELSE AfterSave(gs)

AfterStep(gs, endOfEpoch) ==
    IF ~endOfEpoch THEN "step"
    ELSE IF TrainingArgs.eval_strategy = "epoch" THEN "evaluate"
    ELSE AfterEvaluate(gs)

\* One iteration of the training loop: the train dataloader (random sampler,
\* trainer.data_collator) yields a batch and the optimizer steps on it.
TrainStep ==
    /\ phase = "step"
    /\ LET n    == Len(tokenized_imdb["train"])
           pool == IF remaining = {} THEN 1..n ELSE remaining
       IN  \E idx \in RandomBatches(pool, Min(BatchSize, Cardinality(pool))) :
             LET b    == Collate(TrainerCollator, Features("train", idx))
                 left == pool \ {idx[k] : k \in 1..Len(idx)}
             IN  /\ batchIdx' = << idx >>
                 /\ batchSplit' = "train"
                 /\ batches' = << b >>
                 /\ remaining' = left
                 /\ IF b.ok
                    THEN /\ global_step' = global_step + 1
                         /\ model' = FinetunedWeights(global_step + 1)
                         /\ phase' = AfterStep(global_step + 1, left = {})
                         /\ UNCHANGED << status, err, halted >>
                    ELSE /\ status' = [status EXCEPT ![CellTrain] = "error"]
                         /\ halted' = TRUE
                         /\ err' = [cell |-> CellTrain, ename |-> "ValueError"]
                         /\ phase' = "raised"
                         /\ UNCHANGED << global_step, model >>
    /\ UNCHANGED << execCount, kernelCount, bound, dataVars, metricLoads,
                    classifierModel, envVars, evals, saves, best_metric,
                    best_ckpt, evalPred, evalResult >>

\* trainer.evaluate() at an epoch's end: the eval dataloader (sequential
\* sampler, trainer.data_collator) is run through the model, and the logits and
\* labels are handed to compute_metrics, which reads the global `accuracy`.
Evaluate ==
    /\ phase = "evaluate"
    /\ LET n      == Len(tokenized_imdb["test"])
           slices == SequentialBatches(n, 1)
       IN  /\ batchIdx' = slices
           /\ batchSplit' = "test"
           /\ batches' = [k \in 1..Len(slices) |->
                            Collate(TrainerCollator, Features("test", slices[k]))]
           /\ IF "accuracy" \in bound
              THEN \E logits \in [1..n -> [1..NumLabels -> 0..MaxScore]],
                      loss \in 0..MaxLoss :
                     LET ep == [predictions |-> logits,
                                label_ids   |-> [i \in 1..n |-> tokenized_imdb["test"][i].label]]
                     IN  /\ evalPred' = ep
                         /\ evalResult' = compute_metrics(ep)
                         /\ evals' = Append(evals,
                                [step          |-> global_step,
                                 eval_loss     |-> loss,
                                 eval_accuracy |-> compute_metrics(ep).accuracy])
                         /\ phase' = AfterEvaluate(global_step)
                         /\ UNCHANGED << status, err, halted >>
              ELSE /\ status' = [status EXCEPT ![CellTrain] = "error"]
                   /\ halted' = TRUE
                   /\ err' = [cell |-> CellTrain, ename |-> "NameError"]
                   /\ phase' = "raised"
                   /\ UNCHANGED << evalPred, evalResult, evals >>
    /\ UNCHANGED << execCount, kernelCount, bound, dataVars, metricLoads, model,
                    classifierModel, envVars, global_step, remaining, saves,
                    best_metric, best_ckpt >>

\* The evaluation made at the current step, if there is one.
MetricsNow == IF evals # << >> /\ evals[Len(evals)].step = global_step
              THEN << evals[Len(evals)] >> ELSE << >>

\* Trainer._save_checkpoint: writes output_dir/checkpoint-<global_step>, and
\* with load_best_model_at_end (metric_for_best_model = "loss", lower is
\* better) records the checkpoint when its eval_loss beats the best so far.
SaveCheckpoint ==
    /\ phase = "save"
    /\ saves' = Append(saves, [step |-> global_step, weights |-> model])
    /\ IF /\ TrainingArgs.load_best_model_at_end
          /\ MetricsNow # << >>
          /\ \/ best_metric = << >>
             \/ best_ckpt = << >>
             \/ MetricsNow[1].eval_loss < best_metric[1]
       THEN /\ best_metric' = << MetricsNow[1].eval_loss >>
            /\ best_ckpt' = << global_step >>
       ELSE UNCHANGED << best_metric, best_ckpt >>
    /\ evalPred' = NoEvalPred
    /\ evalResult' = NoResult
    /\ phase' = AfterSave(global_step)
    /\ UNCHANGED << status, execCount, kernelCount, bound, err, halted, dataVars,
                    metricLoads, model, classifierModel, envVars, global_step,
                    remaining, batchIdx, batchSplit, batches, evals >>

\* The position in `saves` of output_dir/checkpoint-<step>.
CheckpointIndex(step) == CHOOSE i \in 1..Len(saves) : saves[i].step = step

\* The end of train(): with load_best_model_at_end the best checkpoint is
\* loaded back into trainer.model; train() returns and the cell completes.
TrainEnd ==
    /\ phase = "finish"
    /\ model' = IF TrainingArgs.load_best_model_at_end /\ best_ckpt # << >>
                THEN saves[CheckpointIndex(best_ckpt[1])].weights
                ELSE model
    /\ phase' = "done"
    /\ status' = [status EXCEPT ![CellTrain] = "ok"]
    /\ UNCHANGED << execCount, kernelCount, bound, err, halted, dataVars, metricLoads,
                    classifierModel, envVars, global_step, remaining, batchIdx,
                    batchSplit, batches, evals, saves, best_metric, best_ckpt,
                    evalPred, evalResult >>

----------------------------------------------------------------------------
(* Cells 12-13: inference.                                                 *)

\* text = "This was a masterpiece. ..."
SetText ==
    /\ CanRun(CellText)
    /\ Executed(CellText, "ok")
    /\ bound' = bound \cup {"text"}
    /\ UNCHANGED << err, dataVars, metricLoads, model, classifierModel,
                    envVars, trainerVars >>

\* What from_pretrained(name) loads: name is looked up as a local directory
\* first and as a Hub repository otherwise.  The only local directory the
\* notebook creates is output_dir, which holds checkpoint-<step> folders.
PipelineWeights(name) ==
    IF name = TrainingArgs.output_dir /\ saves # << >>
    THEN [origin |-> "local directory without model files", step |-> 0]
    ELSE HubWeights(name)

\* classifier = pipeline("sentiment-analysis", model="stevhliu/my_awesome_model")
\* classifier(text)
Inference ==
    /\ CanRun(CellInference)
    /\ IF "text" \in bound
       THEN /\ Executed(CellInference, "ok")
            /\ classifierModel' = PipelineWeights(PipelineModelName)
            /\ bound' = bound \cup {"classifier"}
            /\ UNCHANGED err
       ELSE Raises(CellInference, "NameError") /\ UNCHANGED << classifierModel, bound >>
    /\ UNCHANGED << dataVars, metricLoads, model, envVars, trainerVars >>

----------------------------------------------------------------------------
(* Specifications.                                                         *)

\* The datasets of the full run: three training and two test reviews, and
\* the unlabelled split.
RunDatasets ==
    {[train |-> << Example(a, 0), Example(1, 1), Example(MaxTextLen, 1) >>,
      test  |-> << Example(b, l1), Example(2, l2) >>,
      unsupervised |-> UnsupervisedSplit] :
        a \in 0..MaxTextLen, b \in {0, MaxTextLen}, l1 \in Labels, l2 \in Labels}

\* Every dataset of three training reviews and one test review, with the
\* unlabelled split.
AllDatasets ==
    {[train |-> tr, test |-> te, unsupervised |-> UnsupervisedSplit] :
        tr \in [1..3 -> Examples], te \in [1..1 -> Examples]}

\* A fresh kernel: nothing executed, nothing bound.
InitKernel ==
    /\ status = [k \in Cells |-> "idle"]
    /\ execCount = [k \in Cells |-> 0]
    /\ kernelCount = 0
    /\ bound = {}
    /\ err = NoError
    /\ halted = FALSE
    /\ sklearn \in BOOLEAN
    /\ imdb = EmptyDatasetDict
    /\ tokenized_imdb = EmptyDatasetDict
    /\ mapCalls = EmptyDatasetDict
    /\ metricLoads = 0
    /\ phase = "none"
    /\ global_step = 0
    /\ model = NoWeights
    /\ remaining = {}
    /\ batchIdx = << >>
    /\ batchSplit = "none"
    /\ batches = << >>
    /\ evals = << >>
    /\ saves = << >>
    /\ best_metric = << >>
    /\ best_ckpt = << >>
    /\ evalPred = NoEvalPred
    /\ evalResult = NoResult
    /\ classifierModel = NoWeights

Init == InitKernel /\ hubImdb \in RunDatasets

Next ==
    \/ LoadDataset
    \/ ShowExample
    \/ LoadTokenizer
    \/ DefPreprocess
    \/ MapDataset
    \/ BuildCollator
    \/ LoadMetric
    \/ DefComputeMetrics
    \/ DefLabelMaps
    \/ LoadModel
    \/ TrainBegin
    \/ TrainStep
    \/ Evaluate
    \/ SaveCheckpoint
    \/ TrainEnd
    \/ SetText
    \/ Inference

\* The notebook run top to bottom.
Spec == Init /\ [][Next]_vars

\* After a cell has raised, the user goes on and runs the cells below it.
Resume ==
    /\ halted
    /\ \E k \in Cells : status[k] = "idle"
    /\ halted' = FALSE
    /\ UNCHANGED << status, execCount, kernelCount, bound, err, dataVars,
                    metricLoads, model, classifierModel, envVars, trainerVars >>

NextContinue == Next \/ Resume

\* The notebook run top to bottom, the user running on past failing cells.
SpecContinue == Init /\ [][NextContinue]_vars

InitPreprocess == InitKernel /\ hubImdb \in AllDatasets

NextPreprocess ==
    \/ LoadDataset
    \/ ShowExample
    \/ LoadTokenizer
    \/ DefPreprocess
    \/ MapDataset

\* The run up to the tokenization cell, over every dataset.
SpecPreprocess == InitPreprocess /\ [][NextPreprocess]_vars

----------------------------------------------------------------------------
(* Properties.                                                             *)

\* C1: the notebook is a strictly linear sequence of steps.  A cell has
\* started only if every earlier cell has completed, cells are executed once
\* each in notebook order (execution counts 1, 2, 3, ...), at most one cell
\* runs at a time, train() has started only with the dataset tokenized and the
\* Trainer built, and inference has started only after train() returned.
LinearOrder ==
    /\ \A k \in Cells :
         /\ status[k] # "idle" =>
               /\ \A j \in 1..(k - 1) : status[j] = "ok"
               /\ execCount[k] = k
         /\ status[k] = "idle" => execCount[k] = 0
    /\ kernelCount = Cardinality({k \in Cells : status[k] # "idle"})
    /\ Cardinality({k \in Cells : status[k] = "running"}) <= 1
    /\ phase # "none" =>
         /\ status[CellMap] = "ok"
         /\ "tokenized_imdb" \in bound
         /\ "trainer" \in bound
         /\ status[CellTrain] # "idle"
    /\ status[CellInference] # "idle" => phase = "done" /\ status[CellTrain] = "ok"

\* C1 witness: the whole notebook has run, inference included.
LinearOrderWitness ==
    /\ status[CellInference] = "ok"
    /\ phase = "done"
    /\ global_step > 0

\* C2: when scikit-learn is missing, the metric cell ends in error with the
\* library's ImportError as the run's error output; evaluate.load was called
\* once (no retry) and `accuracy` is left unbound (no fallback metric).
MetricLoadErrorPropagates ==
    (status[CellLoadMetric] # "idle" /\ ~sklearn) =>
        /\ status[CellLoadMetric] = "error"
        /\ err = [cell |-> CellLoadMetric, ename |-> "ImportError"]
        /\ "accuracy" \notin bound
        /\ metricLoads = 1

\* C2 witness: the metric cell has run without scikit-learn.
MetricLoadErrorWitness ==
    /\ ~sklearn
    /\ status[CellLoadMetric] = "error"
    /\ execCount[CellLoadMetric] = CellLoadMetric

\* The class of row i of predictions P as the claim defines it: the lowest
\* index among those holding the row's largest score.
PredictedClass(P, i) ==
    CHOOSE c \in 0..(Len(P[i]) - 1) :
        /\ \A d \in 0..(Len(P[i]) - 1) : P[i][d + 1] <= P[i][c + 1]
        /\ \A d \in 0..(c - 1) : P[i][d + 1] < P[i][c + 1]

\* C3: whenever compute_metrics has returned, its result is the accuracy of
\* the per-row argmax (lowest index on ties): the number of rows whose
\* predicted class equals the label, over the number of rows; the same value
\* is what the evaluation records.
ComputeMetricsIsArgmaxAccuracy ==
    evalPred # NoEvalPred =>
        LET P == evalPred.predictions
            L == evalPred.label_ids
            N == Len(P)
        IN  /\ Len(L) = N
            /\ evalResult = [accuracy |->
                   [num |-> Cardinality({i \in 1..N : PredictedClass(P, i) = L[i]}),
                    den |-> N]]
            /\ evals[Len(evals)].eval_accuracy = evalResult.accuracy

\* C3 witness: compute_metrics returned on predictions with a tied row, a row
\* won by class 1 and a row won by class 0, some rows right and some wrong.
ComputeMetricsWitness ==
    /\ evalPred # NoEvalPred
    /\ \E i \in 1..Len(evalPred.predictions) :
          evalPred.predictions[i][1] = evalPred.predictions[i][2]
    /\ \E i \in 1..Len(evalPred.predictions) :
          evalPred.predictions[i][1] # evalPred.predictions[i][2]
    /\ evalResult.accuracy.num > 0
    /\ evalResult.accuracy.num < evalResult.accuracy.den

\* The untruncated tokenization of a review: [CLS], one id per word, [SEP].
FullTokens(text) == << ClsTokenId >> \o WordIds(text) \o << SepTokenId >>

\* C4: after the map cell, every example of every split has at most
\* model_max_length tokens, and a review whose full tokenization fits the
\* maximum keeps all of its tokens.
TruncatedToModelMax ==
    status[CellMap] = "ok" =>
        \A s \in Splits : \A i \in 1..Len(tokenized_imdb[s]) :
            LET row == tokenized_imdb[s][i]
            IN  /\ Len(row.input_ids) <= ModelMaxLength
                /\ Len(FullTokens(row.text)) <= ModelMaxLength =>
                       row.input_ids = FullTokens(row.text)

\* C4 witness: the mapped dataset holds a review that was cut, one that fits
\* the maximum exactly and one shorter than the maximum.
TruncatedWitness ==
    /\ status[CellMap] = "ok"
    /\ \E i \in 1..Len(tokenized_imdb["train"]) :
          Len(FullTokens(tokenized_imdb["train"][i].text)) > ModelMaxLength
    /\ \E i \in 1..Len(tokenized_imdb["train"]) :
          Len(FullTokens(tokenized_imdb["train"][i].text)) = ModelMaxLength
    /\ \E i \in 1..Len(tokenized_imdb["train"]) :
          Len(tokenized_imdb["train"][i].input_ids) < ModelMaxLength

RECURSIVE Flatten(_)
Flatten(seqs) == IF seqs = << >> THEN << >> ELSE Head(seqs) \o Flatten(Tail(seqs))

\* C5: the map covers the entire dataset.  In every split the calls of
\* preprocess_function cover the rows 1..n once each and in order, the mapped
\* split has as many rows as the original, row i keeps row i's text and label
\* and gains exactly the tokenizer's fields, computed from row i's own text;
\* `imdb` itself is left as loaded.
MapCoversDataset ==
    status[CellMap] = "ok" =>
        /\ imdb = hubImdb
        /\ \A s \in Splits :
             LET n == Len(imdb[s])
             IN  /\ Flatten(mapCalls[s]) = [i \in 1..n |-> i]
                 /\ Len(tokenized_imdb[s]) = n
                 /\ \A i \in 1..n :
                      /\ DOMAIN tokenized_imdb[s][i] =
                            {"text", "label", "input_ids", "attention_mask"}
                      /\ tokenized_imdb[s][i].text = imdb[s][i].text
                      /\ tokenized_imdb[s][i].label = imdb[s][i].label
                      /\ tokenized_imdb[s][i].input_ids =
                            SubSeq(FullTokens(imdb[s][i].text), 1,
                                   Len(tokenized_imdb[s][i].input_ids) - 1)
                            \o << SepTokenId >>

\* C5 witness: a split was mapped in several calls, the last one short, and
\* its rows differ from one another.
MapCoversWitness ==
    /\ status[CellMap] = "ok"
    /\ Len(mapCalls["train"]) > 1
    /\ Len(mapCalls["train"][Len(mapCalls["train"])]) < Len(mapCalls["train"][1])
    /\ imdb["train"][1] # imdb["train"][2]
    /\ imdb["train"][2] # imdb["train"][3]

\* The longest tokenized row among the rows idx of the split last batched.
LongestIn(idx) ==
    CHOOSE m \in 0..ModelMaxLength :
        /\ \A k \in 1..Len(idx) : Len(tokenized_imdb[batchSplit][idx[k]].input_ids) <= m
        /\ \E k \in 1..Len(idx) : Len(tokenized_imdb[batchSplit][idx[k]].input_ids) = m

\* C6: every batch the collator has built is rectangular, as long as the
\* longest tokenized row put into it; each row keeps its own tokens, followed
\* by padding only, with the attention mask marking the padding, and keeps its
\* label.
PadsToLongestInBatch ==
    /\ Len(batches) = Len(batchIdx)
    /\ \A b \in 1..Len(batches) :
         LET idx  == batchIdx[b]
             rows == [k \in 1..Len(idx) |-> tokenized_imdb[batchSplit][idx[k]]]
             long == LongestIn(idx)
         IN  /\ batches[b].ok
             /\ Len(batches[b].input_ids) = Len(idx)
             /\ \A k \in 1..Len(idx) :
                  LET own == Len(rows[k].input_ids)
                  IN  /\ Len(batches[b].input_ids[k]) = long
                      /\ Len(batches[b].attention_mask[k]) = long
                      /\ SubSeq(batches[b].input_ids[k], 1, own) = rows[k].input_ids
                      /\ \A j \in (own + 1)..long :
                            /\ batches[b].input_ids[k][j] = PadTokenId
                            /\ batches[b].attention_mask[k][j] = 0
                      /\ \A j \in 1..own : batches[b].attention_mask[k][j] = 1
                      /\ batches[b].labels[k] = rows[k].label

\* C6 witness: a batch of rows of different lengths was built whose length is
\* below both the model maximum and the longest row of the split.
PadsToLongestWitness ==
    \E b \in 1..Len(batches) :
        /\ Len(batches[b].input_ids) > 1
        /\ Len(batches[b].input_ids[1]) < ModelMaxLength
        /\ \E i \in 1..Len(tokenized_imdb[batchSplit]) :
              Len(tokenized_imdb[batchSplit][i].input_ids) > Len(batches[b].input_ids[1])
        /\ \E k \in 1..Len(batchIdx[b]) :
              Len(tokenized_imdb[batchSplit][batchIdx[b][k]].input_ids)
                  < Len(batches[b].input_ids[1])

\* Optimizer steps per epoch in the current run.
EpochSteps == StepsPerEpoch(Len(tokenized_imdb["train"]))

\* Epochs fully trained so far.
EpochsTrained == global_step \div EpochSteps

\* C7: during train() the k-th evaluation and the k-th checkpoint are made at
\* the end of epoch k, never in mid-epoch; between epochs and after train()
\* the evaluations and the checkpoints both number the epochs trained, the
\* evaluation of an epoch coming before its checkpoint; and training ends
\* after the second epoch with two evaluations and two checkpoints.
EvaluatesAndSavesEachEpoch ==
    phase \notin {"none", "raised"} =>
        /\ \A i \in 1..Len(evals) : evals[i].step = i * EpochSteps
        /\ \A i \in 1..Len(saves) : saves[i].step = i * EpochSteps
        /\ phase = "step" =>
              /\ Len(evals) = EpochsTrained
              /\ Len(saves) = EpochsTrained
              /\ EpochsTrained < 2
        /\ phase = "evaluate" =>
              /\ global_step % EpochSteps = 0
              /\ Len(evals) = EpochsTrained - 1
              /\ Len(saves) = EpochsTrained - 1
        /\ phase = "save" =>
              /\ global_step % EpochSteps = 0
              /\ Len(evals) = EpochsTrained
              /\ Len(saves) = EpochsTrained - 1
        /\ phase \in {"finish", "done"} =>
              /\ global_step = 2 * EpochSteps
              /\ Len(evals) = 2
              /\ Len(saves) = 2

\* C7 witness: train() has returned after two evaluations and two checkpoints,
\* made at the ends of epochs of more than one step.
EvaluatesAndSavesWitness ==
    /\ phase = "done"
    /\ EpochSteps > 1
    /\ Len(evals) = 2
    /\ Len(saves) = 2
    /\ evalResult = NoResult

\* C8: once an evaluation's checkpoint step is over, every evaluation has a
\* checkpoint written at its step; and when train() has returned, the trainer
\* holds the weights of a saved checkpoint whose evaluation has the best
\* (lowest) eval_loss of all the per-epoch evaluations.
BestCheckpointLoaded ==
    /\ phase \in {"step", "finish", "done"} =>
          /\ Len(saves) = Len(evals)
          /\ \A i \in 1..Len(evals) : saves[i].step = evals[i].step
    /\ phase = "done" =>
          \E i \in 1..Len(saves) :
              /\ model = saves[i].weights
              /\ saves[i].step = evals[i].step
              /\ \A j \in 1..Len(evals) : evals[i].eval_loss <= evals[j].eval_loss

\* C8 witness: train() has returned holding the first epoch's checkpoint, not
\* the last one.
BestCheckpointWitness ==
    /\ phase = "done"
    /\ Len(saves) = 2
    /\ model = saves[1].weights
    /\ model # saves[2].weights
    /\ evals[1].eval_loss < evals[2].eval_loss

\* C9 (as claimed): the model the pipeline loads is one this notebook's
\* training produced, the trainer's model or one of its checkpoints.
InferenceUsesTrainedModel ==
    status[CellInference] = "ok" =>
        \/ classifierModel = model
        \/ \E i \in 1..Len(saves) : classifierModel = saves[i].weights

\* C10: every batch the Trainer has built with tokenizer and data_collator is
\* the batch a Trainer given the tokenizer alone builds from the same rows.
ExplicitCollatorRedundant ==
    /\ TrainerCollatorTokenizerOnly = TrainerCollator
    /\ \A b \in 1..Len(batches) :
          batches[b] = Collate(TrainerCollatorTokenizerOnly, Features(batchSplit, batchIdx[b]))

\* C10 witness: the Trainer has built a training batch and evaluation batches
\* that needed padding.
ExplicitCollatorWitness ==
    /\ phase = "save"
    /\ batchSplit = "test"
    /\ \E b \in 1..Len(batches) : \E k \in 1..Len(batches[b].attention_mask) :
          \E j \in 1..Len(batches[b].attention_mask[k]) :
              batches[b].attention_mask[k][j] = 0

\* C11: after a failed metric load `accuracy` stays unbound, and none of the
\* cells between it and the training cell raises: compute_metrics is defined
\* and the Trainer is built.  The training cell raises only at the evaluation
\* that ends the first epoch, with NameError; no evaluation is ever recorded,
\* no checkpoint is written and train() never returns.  While the run stands
\* halted at the metric cell, every later cell is unexecuted.
MetricFailureResurfacesAtEvaluation ==
    status[CellLoadMetric] = "error" =>
        /\ "accuracy" \notin bound
        /\ \A k \in (CellLoadMetric + 1)..(CellTrain - 1) : status[k] \in {"idle", "ok"}
        /\ status[CellDefMetrics] = "ok" => "compute_metrics" \in bound
        /\ status[CellTrain] # "idle" =>
              /\ "trainer" \in bound
              /\ phase \in {"step", "evaluate", "raised"}
              /\ global_step <= EpochSteps
        /\ status[CellTrain] = "error" =>
              /\ phase = "raised"
              /\ global_step = EpochSteps
              /\ batchSplit = "test"
              /\ \/ err = [cell |-> CellTrain, ename |-> "NameError"]
                 \/ err.cell > CellTrain
        /\ evals = << >>
        /\ saves = << >>
        /\ status[CellTrain] # "ok"
        /\ (halted /\ err.cell = CellLoadMetric) =>
              \A k \in (CellLoadMetric + 1)..CellInference :
                  status[k] = "idle" /\ execCount[k] = 0

\* C11 witness: the user ran on past the failed metric cell, compute_metrics
\* was defined, the Trainer trained an epoch, and the evaluation raised.
MetricFailureWitness ==
    /\ status[CellLoadMetric] = "error"
    /\ status[CellDefMetrics] = "ok"
    /\ status[CellTrain] = "error"
    /\ err = [cell |-> CellTrain, ename |-> "NameError"]
    /\ global_step > 0
    /\ model = FinetunedWeights(global_step)

\* C12: once the label maps are defined, id2label and label2id are mutual
\* inverses over the ids {0, 1} and the labels {NEGATIVE, POSITIVE}; each has
\* exactly num_labels = 2 entries; and id2label names the dataset's negative
\* label NEGATIVE and its positive label POSITIVE.
LabelMapsInverse ==
    status[CellLabelMaps] = "ok" =>
        /\ DOMAIN id2label = {0, 1}
        /\ DOMAIN label2id = {"NEGATIVE", "POSITIVE"}
        /\ \A i \in {0, 1} : label2id[id2label[i]] = i
        /\ \A l \in {"NEGATIVE", "POSITIVE"} : id2label[label2id[l]] = l
        /\ Cardinality(DOMAIN id2label) = NumLabels
        /\ Cardinality(DOMAIN label2id) = NumLabels
        /\ NumLabels = 2
        /\ id2label[NegativeLabel] = "NEGATIVE"
        /\ id2label[PositiveLabel] = "POSITIVE"
        /\ DOMAIN id2label = Labels

\* C12 witness: the label maps are defined and the model was loaded with them.
LabelMapsWitness ==
    /\ status[CellLabelMaps] = "ok"
    /\ status[CellLoadModel] = "ok"
    /\ {"id2label", "label2id", "model"} \subseteq bound

\* The splits the Trainer reads: train_dataset and eval_dataset.
TrainerSplits == {"train", "test"}

\* The classes compute_metrics predicts in the evaluation under way stay in
\* the two-class domain: each row of scores has num_labels entries, its
\* predicted class is 0 or 1 and a key of id2label, rendered as NEGATIVE or
\* POSITIVE; the reference labels are 0 or 1 as well.
PredictionsBinary ==
    evalPred # NoEvalPred =>
        \A i \in 1..Len(evalPred.predictions) :
            /\ Len(evalPred.predictions[i]) = NumLabels
            /\ PredictedClass(evalPred.predictions, i) \in {0, 1}
            /\ PredictedClass(evalPred.predictions, i) \in DOMAIN id2label
            /\ id2label[PredictedClass(evalPred.predictions, i)] \in {"NEGATIVE", "POSITIVE"}
            /\ evalPred.label_ids[i] \in {0, 1}

====
